---- MODULE Spec2Model ----
(***************************************************************************)
(* Model of src/mcp_client.py: the JSON-RPC client TravelMcpClient, the    *)
(* result formatter display_result, the five search handlers and the menu  *)
(* loop of main.                                                           *)
(*                                                                         *)
(* Python values are tagged pairs <<tag, payload>>:                        *)
(*   None  <<"null", 0>>         int   <<"num", n>>                        *)
(*   str   <<"str", chunks>>     list  <<"list", seq>>                     *)
(*   dict  <<"dict", function from keys to values>>                        *)
(* A str is a sequence of chunks (one or more characters each); dict keys  *)
(* are plain TLA+ strings.                                                 *)
(***************************************************************************)
EXTENDS Integers, Sequences, FiniteSets, TLC

VARIABLES
    pc,              \* where main is: "start", the prompt it waits at, "exited"
    locals,          \* the fields the running handler has read so far
    tools_response,  \* main's tools_response
    handler,         \* the branch of the menu taken in the current pass
    call,            \* the last client call: <<method name, arguments, outcome of its POST>>
    posted,          \* the payloads POSTed at startup or in the current pass
    result,          \* what the last client call returned
    out,             \* the lines printed at startup or in the current pass
    raised,          \* the exception that left main (or the call), "none" if none
    exit_reason,     \* why main ended
    blanks,          \* for each line typed in the current handler: was it blank
    first_post,      \* history: the method of the first POST of the run
    list_posts,      \* history: the number of tools/list POSTs of the run
    searched         \* history: a tools/call has been POSTed in the run

vars == <<pc, locals, tools_response, handler, call, posted, result, out,
          raised, exit_reason, blanks, first_post, list_posts, searched>>

(***************************************************************************)
(* Bounds                                                                  *)
(***************************************************************************)
\* longest line (in chunks) typed at a prompt
MaxLen == 1
\* longest content sequence enumerated for the formatter
MaxBlocks == 1
\* longest block text (in tokens) enumerated for the formatter
MaxTextLen == 3

(***************************************************************************)
(* Python values                                                           *)
(***************************************************************************)
PyNone == <<"null", 0>>
Unset == <<"unset", 0>>
JNum(n) == <<"num", n>>
JStr(chunks) == <<"str", chunks>>
S(word) == <<"str", <<word>>>>
JList(seq) == <<"list", seq>>
JDict(f) == <<"dict", f>>
Tag(x) == x[1]
Val(x) == x[2]

\* bool(x) as used by "if params:", "if cuisine:", "if not departure:"
Truthy(x) ==
    CASE Tag(x) = "null" -> FALSE
      [] Tag(x) = "num" -> Val(x) # 0
      [] Tag(x) = "str" -> Val(x) # <<>>
      [] Tag(x) = "list" -> Val(x) # <<>>
      [] Tag(x) = "dict" -> DOMAIN Val(x) # {}

\* "key in x" is defined for str (substring), list (element) and dict (key);
\* for None and numbers it raises TypeError
CanContain(x) == Tag(x) \in {"str", "list", "dict"}

In(key, x) ==
    CASE Tag(x) = "dict" -> key \in DOMAIN Val(x)
      [] Tag(x) = "list" -> \E i \in 1..Len(Val(x)) : Val(x)[i] = S(key)
      [] Tag(x) = "str" -> \E i \in 1..Len(Val(x)) : Val(x)[i] = key

\* x[key] succeeds only on a dict that has the key
CanIndex(x, key) == Tag(x) = "dict" /\ key \in DOMAIN Val(x)

\* the exception x[key] raises when it does not succeed
IndexError(x, key) == IF Tag(x) = "dict" THEN "KeyError" ELSE "TypeError"

\* f[key] = value on a dict
Put(f, key, value) == [k \in DOMAIN f \cup {key} |-> IF k = key THEN value ELSE f[k]]

SeqsUpTo(A, n) == UNION {[1..k -> A] : k \in 0..n}

(***************************************************************************)
(* str.strip, str.isdigit, int                                             *)
(***************************************************************************)
RECURSIVE LStrip(_)
LStrip(s) == IF s # <<>> /\ Head(s) = " " THEN LStrip(Tail(s)) ELSE s

RECURSIVE RStrip(_)
RStrip(s) ==
    IF s # <<>> /\ s[Len(s)] = " " THEN RStrip(SubSeq(s, 1, Len(s) - 1)) ELSE s

Strip(s) == RStrip(LStrip(s))

Digits == <<"0", "1", "2", "3", "4", "5", "6", "7", "8", "9">>

IsDigitChar(c) == \E d \in 1..10 : Digits[d] = c

DigitVal(c) == (CHOOSE d \in 1..10 : Digits[d] = c) - 1

IsDigit(s) == s # <<>> /\ \A i \in 1..Len(s) : IsDigitChar(s[i])

RECURSIVE ToInt(_)
ToInt(s) ==
    IF s = <<>> THEN 0
    ELSE 10 * ToInt(SubSeq(s, 1, Len(s) - 1)) + DigitVal(s[Len(s)])

(***************************************************************************)
(* json.loads on a token sequence.  The tokens of the grammar are "[", "]", *)
(* ",", " " and the digits: whitespace, integers and arrays.  Any other    *)
(* token stands for characters that are no JSON ("not json") and makes     *)
(* the text invalid (json.JSONDecodeError).                                *)
(***************************************************************************)
RECURSIVE SkipWs(_, _)
SkipWs(s, i) == IF i <= Len(s) /\ s[i] = " " THEN SkipWs(s, i + 1) ELSE i

RECURSIVE DigitsEnd(_, _)
DigitsEnd(s, i) ==
    IF i <= Len(s) /\ IsDigitChar(s[i]) THEN DigitsEnd(s, i + 1) ELSE i

Bad == [ok |-> FALSE, v |-> PyNone, next |-> 0]

RECURSIVE ParseValue(_, _)
RECURSIVE ParseElems(_, _, _)

\* one JSON value starting at s[i] (no leading whitespace)
ParseValue(s, i) ==
    IF i > Len(s) THEN Bad
    ELSE IF IsDigitChar(s[i]) THEN
        LET j == IF s[i] = "0" THEN i + 1 ELSE DigitsEnd(s, i)
        IN  [ok |-> TRUE, v |-> JNum(ToInt(SubSeq(s, i, j - 1))), next |-> j]
    ELSE IF s[i] = "[" THEN
        LET j == SkipWs(s, i + 1)
        IN  IF j <= Len(s) /\ s[j] = "]"
            THEN [ok |-> TRUE, v |-> JList(<<>>), next |-> j + 1]
            ELSE ParseElems(s, j, <<>>)
    ELSE Bad

\* the elements of an array from s[i] on, up to and including "]"
ParseElems(s, i, acc) ==
    LET e == ParseValue(s, i)
    IN  IF ~e.ok THEN Bad
        ELSE LET j == SkipWs(s, e.next)
             IN  IF j > Len(s) THEN Bad
                 ELSE IF s[j] = "]"
                     THEN [ok |-> TRUE, v |-> JList(Append(acc, e.v)), next |-> j + 1]
                 ELSE IF s[j] = ","
                     THEN ParseElems(s, SkipWs(s, j + 1), Append(acc, e.v))
                 ELSE Bad

\* json.loads(text): [ok, v]; ok = FALSE stands for json.JSONDecodeError
Loads(s) ==
    LET r == ParseValue(s, SkipWs(s, 1))
    IN  IF r.ok /\ SkipWs(s, r.next) > Len(s)
        THEN [ok |-> TRUE, v |-> r.v]
        ELSE [ok |-> FALSE, v |-> PyNone]

(***************************************************************************)
(* json.dumps(data, indent=2)                                              *)
(***************************************************************************)
RECURSIVE IntDigits(_)
IntDigits(n) ==
    IF n < 10 THEN <<Digits[n + 1]>>
    ELSE Append(IntDigits(n \div 10), Digits[(n % 10) + 1])

Indent(level) == [k \in 1..level |-> "  "]

RECURSIVE Dumps(_, _)
RECURSIVE DumpElems(_, _, _)

Dumps(x, level) ==
    IF Tag(x) = "num" THEN IntDigits(Val(x))
    ELSE IF Val(x) = <<>> THEN <<"[", "]">>
    ELSE <<"[">> \o DumpElems(Val(x), 1, level + 1) \o <<"\n">> \o Indent(level) \o <<"]">>

DumpElems(elems, k, level) ==
    IF k > Len(elems) THEN <<>>
    ELSE <<"\n">> \o Indent(level) \o Dumps(elems[k], level)
         \o (IF k < Len(elems) THEN <<",">> ELSE <<>>)
         \o DumpElems(elems, k + 1, level)

(***************************************************************************)
(* TravelMcpClient                                                         *)
(***************************************************************************)
\* What the POST of send_request meets: <<kind, body>>.  "ok" is a 2xx
\* response whose body parses as the JSON value body.
Refused == <<"refused", PyNone>>
TimedOut == <<"timeout", PyNone>>
BadStatus == <<"status", PyNone>>
BadBody == <<"bad_body", PyNone>>
Ok(body) == <<"ok", body>>

\* the exception the try block of send_request raises: session.post raises
\* ConnectionError or Timeout, raise_for_status raises HTTPError, and
\* response.json() raises requests.exceptions.JSONDecodeError (a subclass of
\* RequestException since requests 2.27)
RaisedBy(outcome) ==
    CASE outcome[1] = "refused" -> "ConnectionError"
      [] outcome[1] = "timeout" -> "Timeout"
      [] outcome[1] = "status" -> "HTTPError"
      [] outcome[1] = "bad_body" -> "JSONDecodeError"
      [] outcome[1] = "ok" -> "none"

\* the subclasses of requests.exceptions.RequestException met here
RequestExceptions == {"ConnectionError", "Timeout", "HTTPError", "JSONDecodeError"}

\* a mutant of IsRequestException: only connection errors are caught
IsConnectionErrorOnly(e) == e = "ConnectionError"

\* except requests.exceptions.RequestException as e
IsRequestException(e) == e \in RequestExceptions

\* a mutant of Payload: params is attached whenever it is not None
PayloadParamsUnlessNone(method, params, request_id) ==
    LET base == [jsonrpc |-> S("2.0"), id |-> JNum(request_id), method |-> method]
    IN  IF params # PyNone THEN JDict(Put(base, "params", params)) ELSE JDict(base)

\* the payload send_request builds
Payload(method, params, request_id) ==
    LET base == [jsonrpc |-> S("2.0"), id |-> JNum(request_id), method |-> method]
    IN  IF Truthy(params) THEN JDict(Put(base, "params", params)) ELSE JDict(base)

\* a mutant of send_request: a failed POST is tried a second time
send_request_retrying(method, params, request_id, outcome) ==
    LET e == RaisedBy(outcome)
        payload == Payload(method, params, request_id)
    IN  [posts |-> IF e = "none" THEN <<payload>> ELSE <<payload, payload>>,
         ret |-> IF e = "none" THEN outcome[2]
                 ELSE IF IsRequestException(e)
                      THEN JDict([error |-> JStr(<<"Request failed: ", e>>)])
                 ELSE Unset,
         exc |-> IF e = "none" \/ IsRequestException(e) THEN "none" ELSE e]

\* send_request: the payloads posted (one self.session.post call), the
\* value returned and the exception raised to the caller ("none" when it
\* returns)
send_request(method, params, request_id, outcome) ==
    LET e == RaisedBy(outcome)
    IN  [posts |-> <<Payload(method, params, request_id)>>,
         ret |-> IF e = "none" THEN outcome[2]
                 ELSE IF IsRequestException(e)
                      THEN JDict([error |-> JStr(<<"Request failed: ", e>>)])
                 ELSE Unset,
         exc |-> IF e = "none" \/ IsRequestException(e) THEN "none" ELSE e]

list_tools(outcome) == send_request(S("tools/list"), PyNone, 1, outcome)

ToolCall(name, arguments) == JDict([name |-> S(name), arguments |-> JDict(arguments)])

\* a mutant of search_flights: departure and arrival are swapped
search_flights_swapped(departure, arrival, date, outcome) ==
    send_request(S("tools/call"),
                 ToolCall("search_flights",
                          [departure |-> arrival, arrival |-> departure, date |-> date]),
                 2, outcome)

search_flights(departure, arrival, date, outcome) ==
    send_request(S("tools/call"),
                 ToolCall("search_flights",
                          [departure |-> departure, arrival |-> arrival, date |-> date]),
                 2, outcome)

search_hotels(location, check_in, check_out, adults, outcome) ==
    send_request(S("tools/call"),
                 ToolCall("search_hotels",
                          [location |-> location, checkIn |-> check_in,
                           checkOut |-> check_out, adults |-> adults]),
                 3, outcome)

\* a mutant of WithOptional: only None is left out, "" is sent
WithOptionalUnlessNone(arguments, key, value) ==
    IF value # PyNone THEN Put(arguments, key, value) ELSE arguments

\* arguments[key] = value, done only under "if value:"
WithOptional(arguments, key, value) ==
    IF Truthy(value) THEN Put(arguments, key, value) ELSE arguments

search_restaurants(location, cuisine, outcome) ==
    send_request(S("tools/call"),
                 ToolCall("search_restaurants",
                          WithOptional([location |-> location], "cuisine", cuisine)),
                 4, outcome)

search_attractions(location, category, outcome) ==
    send_request(S("tools/call"),
                 ToolCall("search_attractions",
                          WithOptional([location |-> location], "category", category)),
                 5, outcome)

search_youtube_videos(query, duration, upload_date, sort_by, max_results, outcome) ==
    send_request(S("tools/call"),
                 ToolCall("search_youtube_videos",
                          WithOptional(
                              WithOptional(
                                  WithOptional([query |-> query, maxResults |-> max_results],
                                               "duration", duration),
                                  "uploadDate", upload_date),
                              "sortBy", sort_by)),
                 6, outcome)

(***************************************************************************)
(* display_result                                                          *)
(***************************************************************************)
RECURSIVE SetToSeq(_)
SetToSeq(A) ==
    IF A = {} THEN <<>>
    ELSE LET a == CHOOSE a \in A : TRUE IN <<a>> \o SetToSeq(A \ {a})

\* "for e in x" works on list, str (its chunks) and dict (its keys)
CanIterate(x) == Tag(x) \in {"str", "list", "dict"}

Elements(x) ==
    CASE Tag(x) = "list" -> Val(x)
      [] Tag(x) = "str" -> [i \in 1..Len(Val(x)) |-> S(Val(x)[i])]
      [] Tag(x) = "dict" -> LET keys == SetToSeq(DOMAIN Val(x))
                           IN  [i \in 1..Len(keys) |-> S(keys[i])]

\* k1 in x and k2 in x[k1]: "true", "false", or the exception it raises
InBoth(x, k1, k2) ==
    IF ~CanContain(x) THEN "TypeError"
    ELSE IF ~In(k1, x) THEN "false"
    ELSE IF ~CanIndex(x, k1) THEN IndexError(x, k1)
    ELSE IF ~CanContain(Val(x)[k1]) THEN "TypeError"
    ELSE IF In(k2, Val(x)[k1]) THEN "true"
    ELSE "false"

\* a mutant of PrintBlock: the text is printed as received, never reformatted
PrintBlockRaw(block) ==
    IF Tag(block) # "dict" THEN [out |-> <<>>, exc |-> "AttributeError"]
    ELSE IF ~("type" \in DOMAIN Val(block) /\ Val(block)["type"] = S("text"))
        THEN [out |-> <<>>, exc |-> "none"]
    ELSE IF "text" \notin DOMAIN Val(block) THEN [out |-> <<>>, exc |-> "KeyError"]
    ELSE LET text == Val(block)["text"]
         IN  IF Tag(text) # "str" THEN [out |-> <<>>, exc |-> "TypeError"]
             ELSE [out |-> <<<<"line", Val(text)>>>>, exc |-> "none"]

\* the body of the loop over result["result"]["content"] for one block:
\* what it prints and the exception it raises ("none" when it completes)
PrintBlock(block) ==
    IF Tag(block) # "dict" THEN [out |-> <<>>, exc |-> "AttributeError"]
    ELSE IF ~("type" \in DOMAIN Val(block) /\ Val(block)["type"] = S("text"))
        THEN [out |-> <<>>, exc |-> "none"]
    ELSE IF "text" \notin DOMAIN Val(block) THEN [out |-> <<>>, exc |-> "KeyError"]
    ELSE LET text == Val(block)["text"]
         IN  IF Tag(text) # "str" THEN [out |-> <<>>, exc |-> "TypeError"]
             ELSE LET data == Loads(Val(text))
                  IN  IF data.ok
                      THEN [out |-> <<<<"line", Dumps(data.v, 0)>>>>, exc |-> "none"]
                      ELSE [out |-> <<<<"line", Val(text)>>>>, exc |-> "none"]

RECURSIVE PrintBlocks(_, _, _)
PrintBlocks(blocks, k, acc) ==
    IF k > Len(blocks) THEN [out |-> acc, exc |-> "none"]
    ELSE LET b == PrintBlock(blocks[k])
         IN  IF b.exc # "none" THEN [out |-> acc \o b.out, exc |-> b.exc]
             ELSE PrintBlocks(blocks, k + 1, acc \o b.out)

Heading(service_name) == <<<<"header", service_name>>, <<"rule", 60>>>>

\* display_result(result, service_emoji, service_name): the lines printed
\* and the exception raised ("none" when it returns)
display_result(res, service_name) ==
    LET both == InBoth(res, "result", "content")
    IN  IF both \notin {"true", "false"} THEN [out |-> <<>>, exc |-> both]
        ELSE IF both = "true" THEN
            LET inner == Val(res)["result"]
            IN  IF ~CanIndex(inner, "content")
                THEN [out |-> Heading(service_name), exc |-> IndexError(inner, "content")]
                ELSE IF ~CanIterate(Val(inner)["content"])
                THEN [out |-> Heading(service_name), exc |-> "TypeError"]
                ELSE PrintBlocks(Elements(Val(inner)["content"]), 1, Heading(service_name))
        ELSE IF In("result", res)
            THEN [out |-> Heading(service_name) \o <<<<"value", Val(res)["result"]>>>>,
                  exc |-> "none"]
        ELSE [out |-> <<<<"error", res>>>>, exc |-> "none"]

(***************************************************************************)
(* Menu choice 6: the tools listing                                        *)
(***************************************************************************)
\* the two prints for one tool: tool['name'] then tool['description']
PrintTool(i, tool) ==
    IF ~CanIndex(tool, "name") THEN [out |-> <<>>, exc |-> IndexError(tool, "name")]
    ELSE IF ~CanIndex(tool, "description")
        THEN [out |-> <<<<"tool_name", Val(tool)["name"]>>>>, exc |-> "KeyError"]
    ELSE [out |-> <<<<"tool_name", Val(tool)["name"]>>,
                    <<"tool_description", Val(tool)["description"]>>>>,
          exc |-> "none"]

RECURSIVE PrintTools(_, _, _)
PrintTools(tools, k, acc) ==
    IF k > Len(tools) THEN [out |-> acc, exc |-> "none"]
    ELSE LET t == PrintTool(k, tools[k])
         IN  IF t.exc # "none" THEN [out |-> acc \o t.out, exc |-> t.exc]
             ELSE PrintTools(tools, k + 1, acc \o t.out)

ToolsHeading == <<<<"tools_header", 0>>, <<"rule", 50>>>>

list_available_tools(response) ==
    LET both == InBoth(response, "result", "tools")
    IN  IF both \notin {"true", "false"} THEN [out |-> ToolsHeading, exc |-> both]
        ELSE IF both = "true" THEN
            LET inner == Val(response)["result"]
            IN  IF ~CanIndex(inner, "tools")
                THEN [out |-> ToolsHeading, exc |-> IndexError(inner, "tools")]
                ELSE IF ~CanIterate(Val(inner)["tools"])
                THEN [out |-> ToolsHeading, exc |-> "TypeError"]
                ELSE PrintTools(Elements(Val(inner)["tools"]), 1, ToolsHeading)
        ELSE [out |-> ToolsHeading \o <<<<"tools_error", response>>>>, exc |-> "none"]

(***************************************************************************)
(* Inputs: lines typed at the prompts and answers of the server            *)
(***************************************************************************)
MenuChars == {" ", "1", "2", "3", "4", "5", "6", "7", "9"}
FieldChars == {" ", "a"}
NumberChars == {" ", "7", "a"}
FilterChars == {" ", "short", "week", "rating"}

MenuInputs == SeqsUpTo(MenuChars, MaxLen)
FieldInputs == SeqsUpTo(FieldChars, MaxLen)
NumberInputs == SeqsUpTo(NumberChars, MaxLen)
FilterInputs == SeqsUpTo(FilterChars, MaxLen)

TextBlock(text) == JDict([type |-> S("text"), text |-> JStr(text)])
ImageBlock == JDict([type |-> S("image"), data |-> S("...")])
Content(blocks) == JDict([result |-> JDict([content |-> JList(blocks)])])

\* bodies a search may be answered with
Responses ==
    { Content(<<TextBlock(<<"[", "1", ",", "1", "]">>), ImageBlock, TextBlock(<<"not json">>)>>),
      Content(<<TextBlock(<<"7">>), JDict([type |-> S("text")])>>),
      JDict([result |-> S("ok")]),
      JDict([result |-> JNum(42)]),
      JDict([error |-> JDict([code |-> JNum(32601), message |-> S("Method not found")])]),
      PyNone }

Tool(name) == JDict([name |-> S(name), description |-> S("...")])

\* bodies the startup tools/list may be answered with
ToolsResponses ==
    { JDict([result |-> JDict([tools |-> JList(<<Tool("search_flights"), Tool("search_hotels")>>)])]),
      JDict([result |-> JDict([tools |-> JList(<<Tool("search_flights"), JDict([name |-> S("x")])>>)])]),
      JDict([result |-> JDict(<<>>)]),
      JDict([error |-> JDict([code |-> JNum(32601), message |-> S("Method not found")])]),
      JList(<<S("error")>>),
      PyNone }

Failures == {Refused, TimedOut, BadStatus, BadBody}
SearchOutcomes == Failures \cup {Ok(b) : b \in Responses}
ConnectOutcomes == Failures \cup {Ok(b) : b \in ToolsResponses}

(***************************************************************************)
(* main: startup                                                           *)
(***************************************************************************)
NoCall == <<"none", <<>>, <<"none", PyNone>>>>

Init ==
    /\ pc = "start"
    /\ locals = <<>>
    /\ tools_response = Unset
    /\ handler = "none"
    /\ call = NoCall
    /\ posted = <<>>
    /\ result = Unset
    /\ out = <<>>
    /\ raised = "none"
    /\ exit_reason = "none"
    /\ blanks = <<>>
    /\ first_post = "none"
    /\ list_posts = 0
    /\ searched = FALSE

MethodOf(payload) == Val(Val(payload)["method"])[1]

\* the POSTs of one client call are issued
Post(posts) ==
    /\ posted' = posted \o posts
    /\ first_post' = IF first_post = "none" /\ posts # <<>> THEN MethodOf(posts[1])
                     ELSE first_post
    /\ list_posts' = list_posts
                     + Cardinality({i \in 1..Len(posts) : MethodOf(posts[i]) = "tools/list"})
    /\ searched' = (searched \/ \E i \in 1..Len(posts) : MethodOf(posts[i]) = "tools/call")

NoPost == UNCHANGED <<posted, first_post, list_posts, searched>>

\* an exception leaves main
Escape(e, printed) ==
    /\ pc' = "exited"
    /\ raised' = e
    /\ exit_reason' = "exception"
    /\ out' = printed

\* a mutant of ConnectFailed: the startup check is skipped
ConnectNeverFailed(response) == FALSE

\* if "error" in tools_response
ConnectFailed(response) == In("error", response)

\* main up to "while True": tools_response = client.list_tools() and the
\* test of its "error" key
Connect(outcome) ==
    /\ pc = "start"
    /\ LET r == list_tools(outcome)
       IN  /\ Post(r.posts)
           /\ call' = <<"list_tools", <<>>, outcome>>
           /\ IF r.exc # "none"
              THEN /\ Escape(r.exc, <<>>)
                   /\ UNCHANGED tools_response
              ELSE /\ tools_response' = r.ret
                   /\ IF ~CanContain(r.ret) THEN Escape("TypeError", <<>>)
                      ELSE IF ConnectFailed(r.ret)
                      THEN IF ~CanIndex(r.ret, "error")
                           THEN Escape(IndexError(r.ret, "error"), <<>>)
                           ELSE /\ pc' = "exited"
                                /\ exit_reason' = "connect_failed"
                                /\ out' = <<<<"connect_failed", Val(r.ret)["error"]>>>>
                                /\ UNCHANGED raised
                      ELSE /\ pc' = "menu"
                           /\ out' = <<<<"connected", 0>>>>
                           /\ UNCHANGED <<raised, exit_reason>>
    /\ UNCHANGED <<locals, handler, result, blanks>>

\* Ctrl-C while main is still connecting: no handler is in place yet
InterruptStartup ==
    /\ pc = "start"
    /\ pc' = "exited"
    /\ raised' = "KeyboardInterrupt"
    /\ exit_reason' = "interrupt"
    /\ UNCHANGED <<locals, tools_response, handler, call, posted, result, out,
                   blanks, first_post, list_posts, searched>>

(***************************************************************************)
(* main: the menu loop and the handlers.  Each action is one input() call   *)
(* and the code that runs after it up to the next input() call.            *)
(***************************************************************************)
PromptPcs ==
    {"menu",
     "flight_departure", "flight_arrival", "flight_date",
     "hotel_location", "hotel_check_in", "hotel_check_out", "hotel_adults",
     "restaurant_location", "restaurant_cuisine",
     "attraction_location", "attraction_category",
     "youtube_query", "youtube_duration", "youtube_upload_date",
     "youtube_sort_by", "youtube_max_results"}

\* the line is empty or whitespace only
IsBlank(line) == \A i \in 1..Len(line) : line[i] = " "

\* except Exception as e: print the error and go round the loop again
LoopError(e) == <<<<"loop_error", e>>>>

\* the handler returns to the loop, which shows the menu again
BackToMenu ==
    /\ pc' = "menu"
    /\ locals' = <<>>
    /\ UNCHANGED <<tools_response, raised, exit_reason>>

\* a mutant of Required: an empty value is accepted
RequiredAlwaysGiven(value) == TRUE

\* "if not x: return" lets the handler go on only when x is non-empty
Required(value) == value # <<>>

\* x = input(...).strip(); if not x: return -- then the next prompt
AskRequired(line, field, next_pc) ==
    /\ blanks' = Append(blanks, IsBlank(line))
    /\ IF Required(Strip(line))
       THEN /\ pc' = next_pc
            /\ locals' = Put(locals, field, JStr(Strip(line)))
            /\ UNCHANGED <<tools_response, raised, exit_reason>>
       ELSE BackToMenu
    /\ NoPost
    /\ UNCHANGED <<handler, call, result, out>>

\* x = input(...).strip(); x = x if x in allowed else None -- then the next prompt
AskFilter(line, field, allowed, next_pc) ==
    /\ blanks' = Append(blanks, IsBlank(line))
    /\ pc' = next_pc
    /\ locals' = Put(locals, field,
                      IF Strip(line) \in allowed THEN JStr(Strip(line)) ELSE PyNone)
    /\ NoPost
    /\ UNCHANGED <<tools_response, raised, exit_reason, handler, call, result, out>>

\* result = client.search_...(...); display_result(result, emoji, name),
\* with "except Exception" of the loop around both
Search(op, args, outcome, r, service_name) ==
    /\ Post(r.posts)
    /\ call' = <<op, args, outcome>>
    /\ IF r.exc # "none"
       THEN /\ out' = LoopError(r.exc)
            /\ UNCHANGED result
       ELSE LET d == display_result(r.ret, service_name)
            IN  /\ result' = r.ret
                /\ out' = IF d.exc = "none" THEN d.out ELSE d.out \o LoopError(d.exc)
    /\ BackToMenu
    /\ UNCHANGED handler

\* display_menu(); choice = input(...).strip() and the branch taken on it
Choose(line) ==
    /\ pc = "menu"
    /\ LET choice == Strip(line)
           listing == list_available_tools(tools_response)
       IN  /\ handler' = CASE choice = <<"1">> -> "flight"
                           [] choice = <<"2">> -> "hotel"
                           [] choice = <<"3">> -> "restaurant"
                           [] choice = <<"4">> -> "attraction"
                           [] choice = <<"5">> -> "youtube"
                           [] choice = <<"6">> -> "tools"
                           [] choice = <<"7">> -> "exit"
                           [] OTHER -> "invalid"
           /\ pc' = CASE choice = <<"1">> -> "flight_departure"
                      [] choice = <<"2">> -> "hotel_location"
                      [] choice = <<"3">> -> "restaurant_location"
                      [] choice = <<"4">> -> "attraction_location"
                      [] choice = <<"5">> -> "youtube_query"
                      [] choice = <<"7">> -> "exited"
                      [] OTHER -> "menu"
           /\ out' = CASE choice = <<"6">> ->
                            IF listing.exc = "none" THEN listing.out
                            ELSE listing.out \o LoopError(listing.exc)
                       [] choice = <<"7">> -> <<<<"goodbye", 0>>>>
                       [] choice \in {<<"1">>, <<"2">>, <<"3">>, <<"4">>, <<"5">>} -> <<>>
                       [] OTHER -> <<<<"invalid_choice", 0>>>>
           /\ exit_reason' = IF choice = <<"7">> THEN "exit" ELSE exit_reason
    /\ locals' = <<>>
    /\ call' = NoCall
    /\ posted' = <<>>
    /\ result' = Unset
    /\ blanks' = <<>>
    /\ UNCHANGED <<tools_response, raised, first_post, list_posts, searched>>

\* input() raises EOFError at end of input; the loop's "except Exception"
\* prints it and shows the menu again
EndOfInput ==
    /\ pc \in PromptPcs
    /\ IF pc = "menu"
       THEN /\ handler' = "none"
            /\ call' = NoCall
            /\ posted' = <<>>
            /\ result' = Unset
            /\ blanks' = <<>>
            /\ out' = LoopError("EOFError")
       ELSE /\ out' = out \o LoopError("EOFError")
            /\ UNCHANGED <<handler, call, posted, result, blanks>>
    /\ BackToMenu
    /\ UNCHANGED <<first_post, list_posts, searched>>

\* Ctrl-C at a prompt: except KeyboardInterrupt prints goodbye and breaks
Interrupt ==
    /\ pc \in PromptPcs
    /\ pc' = "exited"
    /\ exit_reason' = "interrupt"
    /\ out' = out \o <<<<"goodbye", 0>>>>
    /\ UNCHANGED <<locals, tools_response, handler, call, posted, result, raised,
                   blanks, first_post, list_posts, searched>>

(***************************************************************************)
(* handle_flight_search                                                    *)
(***************************************************************************)
FlightDeparture(line) ==
    /\ pc = "flight_departure"
    /\ AskRequired(line, "departure", "flight_arrival")

FlightArrival(line) ==
    /\ pc = "flight_arrival"
    /\ AskRequired(line, "arrival", "flight_date")

FlightDate(line, outcome) ==
    /\ pc = "flight_date"
    /\ blanks' = Append(blanks, IsBlank(line))
    /\ IF Required(Strip(line))
       THEN LET date == JStr(Strip(line))
            IN  Search("search_flights", <<locals["departure"], locals["arrival"], date>>,
                       outcome,
                       search_flights(locals["departure"], locals["arrival"], date, outcome),
                       "Flight")
       ELSE /\ BackToMenu
            /\ NoPost
            /\ UNCHANGED <<handler, call, result, out>>

(***************************************************************************)
(* handle_hotel_search                                                     *)
(***************************************************************************)
HotelLocation(line) ==
    /\ pc = "hotel_location"
    /\ AskRequired(line, "location", "hotel_check_in")

HotelCheckIn(line) ==
    /\ pc = "hotel_check_in"
    /\ AskRequired(line, "check_in", "hotel_check_out")

HotelCheckOut(line) ==
    /\ pc = "hotel_check_out"
    /\ AskRequired(line, "check_out", "hotel_adults")

DefaultAdults == 2

HotelAdults(line, outcome) ==
    /\ pc = "hotel_adults"
    /\ blanks' = Append(blanks, IsBlank(line))
    /\ LET adults == JNum(IF IsDigit(Strip(line)) THEN ToInt(Strip(line)) ELSE DefaultAdults)
       IN  Search("search_hotels",
                  <<locals["location"], locals["check_in"], locals["check_out"], adults>>,
                  outcome,
                  search_hotels(locals["location"], locals["check_in"], locals["check_out"],
                                adults, outcome),
                  "Hotel")

(***************************************************************************)
(* handle_restaurant_search, handle_attraction_search                      *)
(***************************************************************************)
\* x = x if x else None
OrNone(value) == IF value # <<>> THEN JStr(value) ELSE PyNone

RestaurantLocation(line) ==
    /\ pc = "restaurant_location"
    /\ AskRequired(line, "location", "restaurant_cuisine")

RestaurantCuisine(line, outcome) ==
    /\ pc = "restaurant_cuisine"
    /\ blanks' = Append(blanks, IsBlank(line))
    /\ LET cuisine == OrNone(Strip(line))
       IN  Search("search_restaurants", <<locals["location"], cuisine>>, outcome,
                  search_restaurants(locals["location"], cuisine, outcome),
                  "Restaurant")

AttractionLocation(line) ==
    /\ pc = "attraction_location"
    /\ AskRequired(line, "location", "attraction_category")

AttractionCategory(line, outcome) ==
    /\ pc = "attraction_category"
    /\ blanks' = Append(blanks, IsBlank(line))
    /\ LET category == OrNone(Strip(line))
       IN  Search("search_attractions", <<locals["location"], category>>, outcome,
                  search_attractions(locals["location"], category, outcome),
                  "Attraction")

(***************************************************************************)
(* handle_youtube_search                                                   *)
(***************************************************************************)
Durations == {<<"short">>, <<"medium">>, <<"long">>}
UploadDates == {<<"hour">>, <<"today">>, <<"week">>, <<"month">>, <<"year">>}
SortOrders == {<<"relevance">>, <<"upload_date">>, <<"view_count">>, <<"rating">>}
DefaultMaxResults == 20
MinMaxResults == 1
MaxMaxResults == 50

YoutubeQuery(line) ==
    /\ pc = "youtube_query"
    /\ AskRequired(line, "query", "youtube_duration")

YoutubeDuration(line) ==
    /\ pc = "youtube_duration"
    /\ AskFilter(line, "duration", Durations, "youtube_upload_date")

YoutubeUploadDate(line) ==
    /\ pc = "youtube_upload_date"
    /\ AskFilter(line, "upload_date", UploadDates, "youtube_sort_by")

YoutubeSortBy(line) ==
    /\ pc = "youtube_sort_by"
    /\ AskFilter(line, "sort_by", SortOrders, "youtube_max_results")

YoutubeMaxResults(line, outcome) ==
    /\ pc = "youtube_max_results"
    /\ blanks' = Append(blanks, IsBlank(line))
    /\ LET n == Strip(line)
           max_results == JNum(IF IsDigit(n) /\ MinMaxResults <= ToInt(n)
                                  /\ ToInt(n) <= MaxMaxResults
                               THEN ToInt(n) ELSE DefaultMaxResults)
       IN  Search("search_youtube_videos",
                  <<locals["query"], locals["duration"], locals["upload_date"],
                    locals["sort_by"], max_results>>,
                  outcome,
                  search_youtube_videos(locals["query"], locals["duration"],
                                        locals["upload_date"], locals["sort_by"],
                                        max_results, outcome),
                  "YouTube")

(***************************************************************************)
(* The program                                                             *)
(***************************************************************************)
Next ==
    \/ \E outcome \in ConnectOutcomes : Connect(outcome)
    \/ InterruptStartup
    \/ \E line \in MenuInputs : Choose(line)
    \/ EndOfInput
    \/ Interrupt
    \/ \E line \in FieldInputs : FlightDeparture(line)
    \/ \E line \in FieldInputs : FlightArrival(line)
    \/ \E line \in FieldInputs, outcome \in SearchOutcomes : FlightDate(line, outcome)
    \/ \E line \in FieldInputs : HotelLocation(line)
    \/ \E line \in FieldInputs : HotelCheckIn(line)
    \/ \E line \in FieldInputs : HotelCheckOut(line)
    \/ \E line \in NumberInputs, outcome \in SearchOutcomes : HotelAdults(line, outcome)
    \/ \E line \in FieldInputs : RestaurantLocation(line)
    \/ \E line \in FieldInputs, outcome \in SearchOutcomes : RestaurantCuisine(line, outcome)
    \/ \E line \in FieldInputs : AttractionLocation(line)
    \/ \E line \in FieldInputs, outcome \in SearchOutcomes : AttractionCategory(line, outcome)
    \/ \E line \in FieldInputs : YoutubeQuery(line)
    \/ \E line \in FilterInputs : YoutubeDuration(line)
    \/ \E line \in FilterInputs : YoutubeUploadDate(line)
    \/ \E line \in FilterInputs : YoutubeSortBy(line)
    \/ \E line \in NumberInputs, outcome \in SearchOutcomes : YoutubeMaxResults(line, outcome)

Spec == Init /\ [][Next]_vars

(***************************************************************************)
(* The client methods and display_result called directly, one call per     *)
(* behaviour, on arguments the handlers do not produce as well (empty      *)
(* strings, None, an empty params mapping, responses of any shape).        *)
(***************************************************************************)
ApiStrs == {S("LHR"), S("JFK"), JStr(<<>>)}
ApiOptionals == ApiStrs \cup {PyNone}
ApiInts == {JNum(2), JNum(20)}
ApiMethods == {S("tools/list"), S("tools/call")}
ApiIds == {1, 2}
ApiParams ==
    { PyNone, JDict(<<>>), JDict([name |-> S("x")]),
      ToolCall("search_flights", [departure |-> S("LHR")]) }
ApiOutcomes == SearchOutcomes \cup ConnectOutcomes

JsonChars == {"[", "]", "1", " "}

Blocks ==
    {TextBlock(text) : text \in SeqsUpTo(JsonChars, MaxTextLen)}
    \cup { ImageBlock,
           JDict([text |-> S("1")]),
           JDict([type |-> S("text")]),
           JDict([type |-> S("text"), text |-> JNum(1)]),
           S("x") }

\* responses handed to display_result
DisplayResponses ==
    Responses \cup ToolsResponses
    \cup {Content(blocks) : blocks \in SeqsUpTo(Blocks, MaxBlocks)}
    \cup {send_request(S("tools/call"), PyNone, 1, f).ret : f \in Failures}
    \cup { Content(<<TextBlock(<<"[", " ", "[", "1", "]", "]">>), TextBlock(<<"1", " ", "1">>)>>),
           JDict([error |-> S("boom")]),
           JDict([id |-> JNum(2)]),
           JDict([result |-> PyNone]),
           JDict([result |-> JList(<<JNum(1)>>)]),
           JDict([result |-> JDict([items |-> JList(<<>>)])]),
           JDict([result |-> S("content")]),
           JDict([result |-> JList(<<S("content")>>)]),
           JDict([result |-> JDict([content |-> JNum(1)])]),
           JDict([result |-> JDict([content |-> S("hi")])]),
           JDict([result |-> JDict([content |-> JDict([type |-> S("text")])])]),
           JList(<<S("result")>>),
           S("result"),
           JNum(5) }

InitApi ==
    /\ pc = "api"
    /\ locals = <<>>
    /\ tools_response = Unset
    /\ handler = "none"
    /\ call = NoCall
    /\ posted = <<>>
    /\ result = Unset
    /\ out = <<>>
    /\ raised = "none"
    /\ exit_reason = "none"
    /\ blanks = <<>>
    /\ first_post = "none"
    /\ list_posts = 0
    /\ searched = FALSE

\* one call of a client method: r is what it posted, returned and raised
ApiCall(op, args, outcome, r) ==
    /\ call' = <<op, args, outcome>>
    /\ posted' = r.posts
    /\ result' = r.ret
    /\ raised' = r.exc
    /\ out' = <<>>
    /\ pc' = "returned"
    /\ UNCHANGED <<locals, tools_response, handler, exit_reason, blanks,
                   first_post, list_posts, searched>>

ApiSendRequest ==
    /\ pc = "api"
    /\ \E method \in ApiMethods, params \in ApiParams, request_id \in ApiIds,
          outcome \in ApiOutcomes :
            ApiCall("send_request", <<method, params, JNum(request_id)>>, outcome,
                    send_request(method, params, request_id, outcome))

ApiListTools ==
    /\ pc = "api"
    /\ \E outcome \in ApiOutcomes :
            ApiCall("list_tools", <<>>, outcome, list_tools(outcome))

ApiSearchFlights ==
    /\ pc = "api"
    /\ \E departure \in ApiStrs, arrival \in ApiStrs, date \in ApiStrs,
          outcome \in SearchOutcomes :
            ApiCall("search_flights", <<departure, arrival, date>>, outcome,
                    search_flights(departure, arrival, date, outcome))

ApiSearchHotels ==
    /\ pc = "api"
    /\ \E location \in ApiStrs, check_in \in ApiStrs, check_out \in ApiStrs,
          adults \in ApiInts, outcome \in SearchOutcomes :
            ApiCall("search_hotels", <<location, check_in, check_out, adults>>, outcome,
                    search_hotels(location, check_in, check_out, adults, outcome))

ApiSearchRestaurants ==
    /\ pc = "api"
    /\ \E location \in ApiStrs, cuisine \in ApiOptionals, outcome \in SearchOutcomes :
            ApiCall("search_restaurants", <<location, cuisine>>, outcome,
                    search_restaurants(location, cuisine, outcome))

ApiSearchAttractions ==
    /\ pc = "api"
    /\ \E location \in ApiStrs, category \in ApiOptionals, outcome \in SearchOutcomes :
            ApiCall("search_attractions", <<location, category>>, outcome,
                    search_attractions(location, category, outcome))

ApiSearchYoutubeVideos ==
    /\ pc = "api"
    /\ \E query \in ApiStrs, duration \in ApiOptionals, upload_date \in ApiOptionals,
          sort_by \in ApiOptionals, max_results \in ApiInts, outcome \in SearchOutcomes :
            ApiCall("search_youtube_videos",
                    <<query, duration, upload_date, sort_by, max_results>>, outcome,
                    search_youtube_videos(query, duration, upload_date, sort_by,
                                          max_results, outcome))

ApiDisplayResult ==
    /\ pc = "api"
    /\ \E response \in DisplayResponses :
          LET d == display_result(response, "Flight")
          IN  /\ out' = d.out
              /\ raised' = d.exc
              /\ call' = <<"display_result", <<response>>, <<"none", PyNone>>>>
              /\ posted' = <<>>
              /\ result' = response
              /\ pc' = "returned"
    /\ UNCHANGED <<locals, tools_response, handler, exit_reason, blanks,
                   first_post, list_posts, searched>>

NextApi ==
    \/ ApiSendRequest
    \/ ApiListTools
    \/ ApiSearchFlights
    \/ ApiSearchHotels
    \/ ApiSearchRestaurants
    \/ ApiSearchAttractions
    \/ ApiSearchYoutubeVideos
    \/ ApiDisplayResult

SpecApi == InitApi /\ [][NextApi]_vars

(***************************************************************************)
(* Properties                                                              *)
(***************************************************************************)
ClientOps ==
    {"send_request", "list_tools", "search_flights", "search_hotels",
     "search_restaurants", "search_attractions", "search_youtube_videos"}

TransportFailed == call[3][1] \in {"refused", "timeout", "status", "bad_body"}

\* the request posted by the last client call, its params and its arguments
Request == Val(posted[1])
RequestParams == Val(Request["params"])
RequestArguments == Val(RequestParams["arguments"])

\* C1: whatever the method, params and id, send_request raises nothing to
\* its caller, and when the POST fails (connection refused, timeout, non-2xx
\* status, body that is not JSON) it returns a mapping whose "error" key
\* holds a non-empty message.
C1_FailureReturnsError ==
    (pc = "returned" /\ call[1] \in ClientOps) =>
        /\ raised = "none"
        /\ TransportFailed =>
              /\ Tag(result) = "dict"
              /\ "error" \in DOMAIN Val(result)
              /\ Tag(Val(result)["error"]) = "str"
              /\ Val(Val(result)["error"]) # <<>>
              /\ Val(Val(result)["error"])[1] = "Request failed: "

C1_Witness ==
    /\ pc = "returned"
    /\ call[1] = "send_request"
    /\ call[3] = BadBody
    /\ raised = "none"
    /\ "error" \in DOMAIN Val(result)

\* the envelope of a direct send_request call
C9_Envelope ==
    (pc = "returned" /\ call[1] = "send_request") =>
        LET method == call[2][1]
            params == call[2][2]
            request_id == call[2][3]
        IN  /\ Len(posted) = 1
            /\ Tag(posted[1]) = "dict"
            /\ Request["jsonrpc"] = <<"str", <<"2.0">>>>
            /\ Request["id"] = request_id
            /\ Request["method"] = method
            /\ IF params = <<"null", 0>> \/ params = <<"dict", <<>>>>
               THEN DOMAIN Request = {"jsonrpc", "id", "method"}
               ELSE /\ DOMAIN Request = {"jsonrpc", "id", "method", "params"}
                    /\ Request["params"] = params

\* the envelope of list_tools
C9_ListToolsEnvelope ==
    (pc = "returned" /\ call[1] = "list_tools") =>
        /\ Len(posted) = 1
        /\ DOMAIN Request = {"jsonrpc", "id", "method"}
        /\ Request["method"] = <<"str", <<"tools/list">>>>

\* C9: the envelope send_request builds has jsonrpc "2.0", the caller's id
\* and the method, and has a params member exactly when the params given
\* is a non-empty mapping (then it is that mapping); None and {} give an
\* envelope without params, as for tools/list.
C9_EnvelopeAndListTools == C9_Envelope /\ C9_ListToolsEnvelope

C9_Witness ==
    /\ pc = "returned"
    /\ call[1] = "send_request"
    /\ call[2][2] = <<"dict", <<>>>>
    /\ "params" \notin DOMAIN Request

\* C5: search_flights(departure, arrival, date) posts one request with
\* method "tools/call", inner name "search_flights" and arguments exactly
\* {departure, arrival, date} holding the three values given.
C5_FlightRequest ==
    (pc = "returned" /\ call[1] = "search_flights") =>
        /\ Len(posted) = 1
        /\ Request["method"] = <<"str", <<"tools/call">>>>
        /\ DOMAIN RequestParams = {"name", "arguments"}
        /\ RequestParams["name"] = <<"str", <<"search_flights">>>>
        /\ DOMAIN RequestArguments = {"departure", "arrival", "date"}
        /\ RequestArguments["departure"] = call[2][1]
        /\ RequestArguments["arrival"] = call[2][2]
        /\ RequestArguments["date"] = call[2][3]

C5_Witness ==
    /\ pc = "returned"
    /\ call[1] = "search_flights"
    /\ call[2] = <<S("LHR"), S("JFK"), S("LHR")>>
    /\ RequestArguments["arrival"] = S("JFK")

\* the optional parameters of a wrapper: <<key in arguments, position in the call>>
Optionals(op) ==
    CASE op = "search_restaurants" -> {<<"cuisine", 2>>}
      [] op = "search_attractions" -> {<<"category", 2>>}
      [] op = "search_youtube_videos" ->
            {<<"duration", 2>>, <<"uploadDate", 3>>, <<"sortBy", 4>>}
      [] OTHER -> {}

Omitted(value) == value = <<"null", 0>> \/ value = <<"str", <<>>>>

\* C6: in search_restaurants, search_attractions and search_youtube_videos
\* an optional field given as None or "" has no key in the arguments sent,
\* and one given non-empty has its key with exactly the value given.
C6_OptionalFields ==
    (pc = "returned" /\ Optionals(call[1]) # {}) =>
        /\ Len(posted) = 1
        /\ \A o \in Optionals(call[1]) :
              IF Omitted(call[2][o[2]])
              THEN o[1] \notin DOMAIN RequestArguments
              ELSE /\ o[1] \in DOMAIN RequestArguments
                   /\ RequestArguments[o[1]] = call[2][o[2]]

C6_Witness ==
    /\ pc = "returned"
    /\ call[1] = "search_youtube_videos"
    /\ call[2][2] = <<"str", <<>>>>
    /\ call[2][3] = <<"null", 0>>
    /\ call[2][4] = S("JFK")
    /\ DOMAIN RequestArguments = {"query", "maxResults", "sortBy"}

\* the response handed to display_result and what is in it
Shown == call[2][1]
HasResult == Tag(Shown) = "dict" /\ "result" \in DOMAIN Val(Shown)
ShownResult == Val(Shown)["result"]
HasContent == HasResult /\ Tag(ShownResult) = "dict" /\ "content" \in DOMAIN Val(ShownResult)
ShownContent == Val(ShownResult)["content"]
Header == <<<<"header", "Flight">>, <<"rule", 60>>>>

\* C7: display_result puts every response mapping in one of three cases and
\* never fails: result.content exists -- the heading and the blocks; else a
\* result exists, whatever its value -- the heading and that value; else --
\* the error line with the raw response (so {"error": ...} is an error).
C7_ThreeCases ==
    (pc = "returned" /\ call[1] = "display_result" /\ Tag(Shown) = "dict") =>
        /\ raised = "none"
        /\ IF HasContent
           THEN /\ Len(out) >= 2
                /\ SubSeq(out, 1, 2) = Header
                /\ \A i \in 3..Len(out) : out[i][1] = "line"
           ELSE IF HasResult
           THEN out = Header \o <<<<"value", ShownResult>>>>
           ELSE out = <<<<"error", Shown>>>>

\* a content block {type: "text", text: <str>}
IsTextBlock(block) ==
    /\ Tag(block) = "dict"
    /\ "type" \in DOMAIN Val(block)
    /\ Val(block)["type"] = <<"str", <<"text">>>>

\* every block is a mapping, and every text block has a str text
WellFormed(blocks) ==
    \A i \in 1..Len(blocks) :
        /\ Tag(blocks[i]) = "dict"
        /\ IsTextBlock(blocks[i]) =>
              /\ "text" \in DOMAIN Val(blocks[i])
              /\ Tag(Val(blocks[i])["text"]) = "str"

\* C8: when result.content is a list of blocks {type, text}, the lines
\* after the heading are, in order, one per block of type "text": the
\* pretty-printed JSON of its text if the text parses, else the text
\* unchanged; blocks of another type print nothing.
C8_ContentBlocks ==
    (/\ pc = "returned" /\ call[1] = "display_result"
     /\ HasContent /\ Tag(ShownContent) = "list" /\ WellFormed(Val(ShownContent))) =>
        LET texts == SelectSeq(Val(ShownContent), IsTextBlock)
        IN  /\ raised = "none"
            /\ Len(out) = 2 + Len(texts)
            /\ SubSeq(out, 1, 2) = Header
            /\ \A i \in 1..Len(texts) :
                  LET text == Val(Val(texts[i])["text"])
                  IN  /\ out[2 + i][1] = "line"
                      /\ IF Loads(text).ok
                         THEN out[2 + i][2] = Dumps(Loads(text).v, 0)
                         ELSE out[2 + i][2] = text

C8_Witness ==
    /\ pc = "returned"
    /\ call[1] = "display_result"
    /\ Shown = Content(<<TextBlock(<<"[", "1", ",", "1", "]">>), ImageBlock,
                         TextBlock(<<"not json">>)>>)
    /\ out = Header \o <<<<"line", <<"[", "\n", "  ", "1", ",", "\n", "  ", "1", "\n", "]">>>>,
                         <<"line", <<"not json">>>>>>

\* the number of required fields each handler asks for first
RequiredFields ==
    [h \in {"none", "flight", "hotel", "restaurant", "attraction", "youtube",
            "tools", "exit", "invalid"} |->
        CASE h = "flight" -> 3
          [] h = "hotel" -> 3
          [] h \in {"restaurant", "attraction", "youtube"} -> 1
          [] OTHER -> 0]

HandlerPcs == PromptPcs \ {"menu"}

\* C2: in every search handler, once a required field is entered empty or
\* as whitespace only, the handler asks nothing more and is left, and no
\* request is posted in that menu interaction -- whichever required field
\* it is and whatever was entered before it.
C2_EmptyFieldPostsNothing ==
    \A i \in 1..Len(blanks) :
        (i <= RequiredFields[handler] /\ blanks[i]) =>
            /\ Len(blanks) = i
            /\ pc \notin HandlerPcs
            /\ posted = <<>>
            /\ call[1] = "none"

C2_Witness ==
    /\ handler = "hotel"
    /\ blanks = <<FALSE, FALSE, TRUE>>
    /\ pc = "menu"
    /\ posted = <<>>

\* C3: whatever is typed and whatever the server answers, no exception
\* leaves main (an interrupt apart): every error is recovered in the loop.
C3_NoExceptionEscapes == raised \in {"none", "KeyboardInterrupt"}

\* C4: one pass of the menu loop posts at most one request, also when the
\* request fails, and the answer to it (or the error made from its failure)
\* is in hand whenever a prompt is shown after it.
C4_AtMostOnePost ==
    /\ Len(posted) <= 1
    /\ (pc \in PromptPcs /\ handler # "none" /\ posted # <<>>) =>
          /\ call[1] \in ClientOps
          /\ result # Unset
          /\ TransportFailed => "error" \in DOMAIN Val(result)

C4_Witness ==
    /\ pc = "menu"
    /\ handler = "flight"
    /\ call[3] = Refused
    /\ Len(posted) = 1
    /\ "error" \in DOMAIN Val(result)

\* the startup answer is a mapping with an "error" key
StartupError == Tag(tools_response) = "dict" /\ "error" \in DOMAIN Val(tools_response)

\* C10: the first request of a run is tools/list and it is the only
\* tools/list of the run; a tools/call is posted only if the answer to it is
\* a mapping without an "error" key; and if that answer has an "error" key
\* main has returned, without a menu and without another request.
C10_ToolsListFirstAndOnce ==
    /\ first_post \in {"none", "tools/list"}
    /\ pc # "start" /\ raised # "KeyboardInterrupt" => first_post = "tools/list"
    /\ list_posts <= 1
    /\ searched => (Tag(tools_response) = "dict" /\ "error" \notin DOMAIN Val(tools_response))
    /\ StartupError =>
          /\ pc = "exited"
          /\ exit_reason = "connect_failed"
          /\ handler = "none"
          /\ Len(posted) = 1
          /\ ~searched

C10_Witness ==
    /\ StartupError
    /\ pc = "exited"
    /\ call[3][1] = "ok"
    /\ first_post = "tools/list"
    /\ ~searched

====
